---- MODULE Spec2Model ----
(***************************************************************************)
(* Model of prefect.orion.utilities.database: the per-event-loop engine    *)
(* cache (get_engine), the session-factory cache (get_session_factory),    *)
(* the task-scoped session registry the factories carry, the               *)
(* engine_connect listener setup_sqlite, and the UUID and Timestamp column *)
(* codecs.                                                                 *)
(*                                                                         *)
(* Scheduling.  get_engine and get_session_factory are synchronous         *)
(* functions.  Every asyncio event loop runs in one thread and runs one    *)
(* task at a time, and a task gives up the loop only at an await, so on    *)
(* one loop a call runs from its first line to its return before another   *)
(* task of that loop runs.  Two loops that are alive together run in two   *)
(* threads, which interleave between any two accesses to the module-level  *)
(* dictionaries.  The model therefore keeps one call frame per loop and    *)
(* interleaves the frames of different loops step by step.                 *)
(***************************************************************************)
EXTENDS Integers, Sequences, FiniteSets, TLC

\* ------------------------------------------------------------------ bounds
MaxEngines == 2
MaxFactories == 2
MaxSessions == 2
MaxFailures == 1

\* -------------------------------------------------------- the environment
\* Event loops alive in the process, and the asyncio tasks running on them.
Loops == {"loopA", "loopB"}
Tasks == {"a1", "a2", "b1"}
LoopOf(t) == IF t \in {"a1", "a2"} THEN "loopA" ELSE "loopB"

NoneArg == "None"

MemoryUrl == "sqlite+aiosqlite:///:memory:"
BareUrl == "sqlite+aiosqlite://"
FileUrl == "sqlite+aiosqlite:////tmp/orion.db"
ServerUrl == "postgresql+asyncpg://localhost/orion"
Urls == {MemoryUrl, BareUrl, FileUrl, ServerUrl}

\* conn.engine.url.get_backend_name()
get_backend_name(url) == IF url = ServerUrl THEN "postgresql" ELSE "sqlite"

\* conn.engine.url.database
url_database(url) ==
    CASE url = MemoryUrl -> ":memory:"
      [] url = BareUrl -> NoneArg
      [] url = FileUrl -> "/tmp/orion.db"
      [] OTHER -> "orion"

\* settings.orion.database.connection_url / settings.orion.database.echo:
\* the values the process is configured with (the test fixtures name the
\* configured database an in-memory sqlite one)
settings_connection_url == MemoryUrl
settings_echo == "False"

VARIABLES
    ENGINES,            \* the dict ENGINES: cache key -> engine
    SESSION_FACTORIES,  \* the dict SESSION_FACTORIES: cache key -> factory
    engines,            \* the engine objects made so far, by identity
    factories,          \* the scoped session factories made so far
    registry,           \* registry[f]: the scoped registry of factory f
    numSessions,        \* the session objects made so far
    frame,              \* frame[l]: the call running on loop l
    listenerArmed,      \* the once=True listener has not fired yet
    connected,          \* engines a connection was made through
    pragmaRun,          \* engines on whose connection the pragma ran
    schemaCreated,      \* engines create_all was run against
    engRet,             \* history: <<task, key, engine>> get_engine returned
    facRet,             \* history: what get_session_factory returned
    sessRet,            \* history: <<task, factory, session>> a factory returned
    raised,             \* history: keys whose engine creation has failed
    codec               \* the codec call in progress

cacheVars == <<ENGINES, SESSION_FACTORIES, engines, factories, frame,
               engRet, facRet, raised>>
sessVars == <<registry, numSessions, sessRet>>
connVars == <<listenerArmed, connected, pragmaRun, schemaCreated>>
vars == <<cacheVars, sessVars, connVars, codec>>

Idle == [pc |-> "idle"]

\* ------------------------------------------------------------- get_engine
\* lines 48-51: the arguments left out fall back to the settings
ResolveUrl(url) == IF url = NoneArg THEN settings_connection_url ELSE url
ResolveEcho(echo) == IF echo = NoneArg THEN settings_echo ELSE echo

\* A cache key that leaves the loop out.
EngineKeyNoLoop(loop, url, echo) == <<"loopA", url, echo>>
\* lines 53-54: cache_key = (loop, connection_url, echo)
EngineKey(loop, url, echo) == <<loop, url, echo>>

\* A membership test that never finds the key.
MissingAlways(key, cache) == TRUE
\* lines 55 and 79: cache_key not in <dict>
Missing(key, cache) == key \notin DOMAIN cache

\* An assignment that drops every other entry.
StoreOnly(cache, key, value) == (key :> value)
\* lines 56 and 89: <dict>[cache_key] = value
Store(cache, key, value) == (key :> value) @@ cache

\* Engines made for a key, whether or not they reached the cache.
CreatedFor(key) == {e \in 1..Len(engines) : engines[e].key = key}
FactoriesFor(key) == {f \in 1..Len(factories) : factories[f].key = key}

\* A task calls get_engine(url, echo): lines 48-54.
ge_call(t, url, echo) ==
    LET l == LoopOf(t) IN
    /\ frame[l].pc = "idle"
    /\ frame' = [frame EXCEPT ![l] =
          [pc |-> "ge_check", task |-> t, op |-> "get_engine",
           key |-> EngineKey(l, ResolveUrl(url), ResolveEcho(echo))]]
    /\ UNCHANGED <<ENGINES, SESSION_FACTORIES, engines, factories,
                   engRet, facRet, raised>>
    /\ UNCHANGED <<sessVars, connVars, codec>>

\* line 55: if cache_key not in ENGINES
ge_check(l) ==
    /\ frame[l].pc = "ge_check"
    /\ frame' = [frame EXCEPT ![l].pc =
          IF Missing(frame[l].key, ENGINES) THEN "ge_create" ELSE "ge_return"]
    /\ UNCHANGED <<ENGINES, SESSION_FACTORIES, engines, factories,
                   engRet, facRet, raised>>
    /\ UNCHANGED <<sessVars, connVars, codec>>

\* A failed creation that leaves a marker in the cache.
ge_create_fail_cached(l) ==
    /\ frame[l].pc = "ge_create"
    /\ Cardinality(raised) < MaxFailures
    /\ frame' = [frame EXCEPT ![l] = Idle]
    /\ ENGINES' = Store(ENGINES, frame[l].key, 0)
    /\ raised' = raised \cup {frame[l].key}
    /\ UNCHANGED <<SESSION_FACTORIES, engines, factories, engRet, facRet>>
    /\ UNCHANGED <<sessVars, connVars, codec>>
\* line 56, create_async_engine raises: the assignment is not reached and the
\* exception leaves get_engine (and get_session_factory, when it was the
\* caller, line 75) for the task
ge_create_fail(l) ==
    /\ frame[l].pc = "ge_create"
    /\ Cardinality(raised) < MaxFailures
    /\ frame' = [frame EXCEPT ![l] = Idle]
    /\ raised' = raised \cup {frame[l].key}
    /\ UNCHANGED <<ENGINES, SESSION_FACTORIES, engines, factories,
                   engRet, facRet>>
    /\ UNCHANGED <<sessVars, connVars, codec>>

\* A creation that reuses an engine made for the same connection string and
\* echo flag, whichever loop it was made for.
ge_create_shared(l) ==
    LET same == {e \in 1..Len(engines) :
                    /\ engines[e].url = frame[l].key[2]
                    /\ engines[e].echo = frame[l].key[3]}
    IN
    /\ frame[l].pc = "ge_create"
    /\ IF same # {}
       THEN /\ ENGINES' = Store(ENGINES, frame[l].key, CHOOSE e \in same : TRUE)
            /\ UNCHANGED engines
       ELSE /\ Len(engines) < MaxEngines
            /\ engines' = Append(engines, [url |-> frame[l].key[2],
                                           echo |-> frame[l].key[3],
                                           key |-> frame[l].key])
            /\ ENGINES' = Store(ENGINES, frame[l].key, Len(engines) + 1)
    /\ frame' = [frame EXCEPT ![l].pc = "ge_return"]
    /\ UNCHANGED <<SESSION_FACTORIES, factories, engRet, facRet, raised>>
    /\ UNCHANGED <<sessVars, connVars, codec>>
\* line 56: ENGINES[cache_key] = create_async_engine(connection_url, echo=echo)
ge_create(l) ==
    /\ frame[l].pc = "ge_create"
    /\ Len(engines) < MaxEngines
    /\ engines' = Append(engines, [url |-> frame[l].key[2],
                                   echo |-> frame[l].key[3],
                                   key |-> frame[l].key])
    /\ ENGINES' = Store(ENGINES, frame[l].key, Len(engines) + 1)
    /\ frame' = [frame EXCEPT ![l].pc = "ge_return"]
    /\ UNCHANGED <<SESSION_FACTORIES, factories, engRet, facRet, raised>>
    /\ UNCHANGED <<sessVars, connVars, codec>>

\* line 57: return ENGINES[cache_key]; inside get_session_factory (line 75)
\* the value becomes bind and the call goes on at line 77
ge_return(l) ==
    /\ frame[l].pc = "ge_return"
    /\ LET e == ENGINES[frame[l].key] IN
       IF frame[l].op = "get_engine"
       THEN /\ engRet' = engRet \cup {<<frame[l].task, frame[l].key, e>>}
            /\ frame' = [frame EXCEPT ![l] = Idle]
       ELSE /\ engRet' = engRet
            /\ frame' = [frame EXCEPT ![l] =
                  [pc |-> "sf_check", task |-> frame[l].task,
                   op |-> frame[l].op, bind |-> e, default |-> TRUE]]
    /\ UNCHANGED <<ENGINES, SESSION_FACTORIES, engines, factories, facRet,
                   raised>>
    /\ UNCHANGED <<sessVars, connVars, codec>>

\* ---------------------------------------------------- get_session_factory
\* A cache key that leaves the bind out.
SessionKeyByLoop(loop, bind) == <<loop>>
\* lines 77-78: cache_key = (loop, bind)
SessionKey(loop, bind) == <<loop, bind>>

\* The engines get_engine has handed to task t.
HeldEngines(t) == {r[3] : r \in {x \in engRet : x[1] = t}}
\* The factories get_session_factory has handed to task t.
HeldFactories(t) == {r[4] : r \in {x \in facRet : x[1] = t}}

\* A task calls get_session_factory(): lines 74-75, bind = get_engine()
sf_call_default(t) ==
    LET l == LoopOf(t) IN
    /\ frame[l].pc = "idle"
    /\ frame' = [frame EXCEPT ![l] =
          [pc |-> "ge_check", task |-> t, op |-> "get_session_factory",
           key |-> EngineKey(l, ResolveUrl(NoneArg), ResolveEcho(NoneArg))]]
    /\ UNCHANGED <<ENGINES, SESSION_FACTORIES, engines, factories,
                   engRet, facRet, raised>>
    /\ UNCHANGED <<sessVars, connVars, codec>>

\* A task calls get_session_factory(bind) with an engine it holds.
sf_call(t, e) ==
    LET l == LoopOf(t) IN
    /\ frame[l].pc = "idle"
    /\ e \in HeldEngines(t)
    /\ frame' = [frame EXCEPT ![l] =
          [pc |-> "sf_check", task |-> t, op |-> "get_session_factory",
           bind |-> e, default |-> FALSE]]
    /\ UNCHANGED <<ENGINES, SESSION_FACTORIES, engines, factories,
                   engRet, facRet, raised>>
    /\ UNCHANGED <<sessVars, connVars, codec>>

\* line 79: if cache_key not in SESSION_FACTORIES
sf_check(l) ==
    /\ frame[l].pc = "sf_check"
    /\ frame' = [frame EXCEPT ![l].pc =
          IF Missing(SessionKey(l, frame[l].bind), SESSION_FACTORIES)
          THEN "sf_create" ELSE "sf_return"]
    /\ UNCHANGED <<ENGINES, SESSION_FACTORIES, engines, factories,
                   engRet, facRet, raised>>
    /\ UNCHANGED <<sessVars, connVars, codec>>

\* lines 81-91: SESSION_FACTORIES[cache_key] = async_scoped_session(
\* sessionmaker(bind, ...), scopefunc=current_task), its registry empty
sf_create(l) ==
    /\ frame[l].pc = "sf_create"
    /\ Len(factories) < MaxFactories
    /\ factories' = Append(factories,
          [bind |-> frame[l].bind, key |-> SessionKey(l, frame[l].bind)])
    /\ registry' = Append(registry, <<>>)
    /\ SESSION_FACTORIES' =
          Store(SESSION_FACTORIES, SessionKey(l, frame[l].bind),
                Len(factories) + 1)
    /\ frame' = [frame EXCEPT ![l].pc = "sf_return"]
    /\ UNCHANGED <<ENGINES, engines, engRet, facRet, raised>>
    /\ UNCHANGED <<numSessions, sessRet, connVars, codec>>

\* line 93: return SESSION_FACTORIES[cache_key]
sf_return(l) ==
    /\ frame[l].pc = "sf_return"
    /\ facRet' = facRet \cup
          {<<frame[l].task, frame[l].bind, frame[l].default,
             SESSION_FACTORIES[SessionKey(l, frame[l].bind)]>>}
    /\ frame' = [frame EXCEPT ![l] = Idle]
    /\ UNCHANGED <<ENGINES, SESSION_FACTORIES, engines, factories, engRet,
                   raised>>
    /\ UNCHANGED <<sessVars, connVars, codec>>

\* ------------------------------------------------- the scoped session factory
\* A scope function that tells loops apart, not tasks.
ScopeOfLoop(t) == LoopOf(t)
\* line 90: scopefunc=current_task
Scope(t) == t

\* A task that holds factory f calls it: the scoped registry returns the
\* session stored under the scope key, making and storing one when there is
\* none (lines 89-91).
Invoke(t, f) ==
    /\ frame[LoopOf(t)].pc = "idle"
    /\ f \in HeldFactories(t)
    /\ IF Missing(Scope(t), registry[f])
       THEN /\ numSessions < MaxSessions
            /\ numSessions' = numSessions + 1
            /\ registry' = [registry EXCEPT
                  ![f] = Store(registry[f], Scope(t), numSessions + 1)]
       ELSE UNCHANGED <<numSessions, registry>>
    /\ sessRet' = sessRet \cup {<<t, f, registry'[f][Scope(t)]>>}
    /\ UNCHANGED <<cacheVars, connVars, codec>>

\* ------------------------------------------------------------ setup_sqlite
\* A listener that creates the tables in every sqlite database.
CreatesTablesAnySqlite(url) == get_backend_name(url) = "sqlite"
\* lines 103 and 110: the tables are created in an in-memory sqlite database
CreatesTables(url) ==
    /\ get_backend_name(url) = "sqlite"
    /\ url_database(url) \in {":memory:", NoneArg}

\* lines 103-107: the pragma runs on a sqlite connection
RunsPragma(url) == get_backend_name(url) = "sqlite"

\* A task makes a connection through an engine it holds.  The engine fires
\* engine_connect; the listener of line 96 is registered on the Engine class
\* with once=True, so it runs for the first such event of the process and is
\* dropped (lines 96-111).
Connect(t, e) ==
    /\ frame[LoopOf(t)].pc = "idle"
    /\ e \in HeldEngines(t)
    /\ connected' = connected \cup {e}
    /\ listenerArmed' = FALSE
    /\ IF listenerArmed
       THEN /\ pragmaRun' = IF RunsPragma(engines[e].url)
                            THEN pragmaRun \cup {e} ELSE pragmaRun
            /\ schemaCreated' = IF CreatesTables(engines[e].url)
                                THEN schemaCreated \cup {e} ELSE schemaCreated
       ELSE UNCHANGED <<pragmaRun, schemaCreated>>
    /\ UNCHANGED <<cacheVars, sessVars, codec>>

\* ------------------------------------------------------------ Python values
None == [type |-> "None"]
ValueError(msg) == [type |-> "ValueError", msg |-> msg]
IsError(v) == v.type = "ValueError"

Dialects == {"postgresql", "sqlite"}

HexDigits == <<"0", "1", "2", "3", "4", "5", "6", "7",
               "8", "9", "a", "b", "c", "d", "e", "f">>
UpperHexDigits == <<"0", "1", "2", "3", "4", "5", "6", "7",
                    "8", "9", "A", "B", "C", "D", "E", "F">>
Range(seq) == {seq[i] : i \in 1..Len(seq)}
IsHexChar(c) == c \in Range(HexDigits) \cup Range(UpperHexDigits)
\* int(c, 16)
HexValue(c) ==
    CHOOSE n \in 0..15 : HexDigits[n + 1] = c \/ UpperHexDigits[n + 1] = c

\* uuid.UUID.__str__: '%032x' of the integer, cut 8-4-4-4-12 with hyphens
uuid_str(u) ==
    LET hex == [i \in 1..32 |-> HexDigits[u.int[i] + 1]] IN
    [type |-> "str",
     chars |-> SubSeq(hex, 1, 8) \o <<"-">> \o SubSeq(hex, 9, 12) \o <<"-">>
               \o SubSeq(hex, 13, 16) \o <<"-">> \o SubSeq(hex, 17, 20)
               \o <<"-">> \o SubSeq(hex, 21, 32)]

\* str(value)
py_str(v) == IF v.type = "UUID" THEN uuid_str(v) ELSE v

\* uuid.UUID(hex): the hyphens are dropped, 32 hexadecimal digits of either
\* case are read as the integer, anything else is a ValueError
uuid_UUID(v) ==
    LET hex == SelectSeq(v.chars, LAMBDA c : c # "-") IN
    IF Len(hex) # 32 \/ \E i \in 1..Len(hex) : ~IsHexChar(hex[i])
    THEN ValueError("badly formed hexadecimal UUID string")
    ELSE [type |-> "UUID", int |-> [i \in 1..32 |-> HexValue(hex[i])]]

\* -------------------------------------------------------------- class UUID
\* lines 237-245
UUID_process_bind_param(value, dialect) ==
    IF value.type = "None" THEN None
    ELSE IF dialect = "postgresql" THEN py_str(value)
    ELSE IF value.type = "UUID" THEN py_str(value)
    ELSE LET u == uuid_UUID(value) IN IF IsError(u) THEN u ELSE py_str(u)

\* A result processor that hands the stored string back as it is.
UUID_process_result_value_raw(value, dialect) == value
\* lines 247-253
UUID_process_result_value(value, dialect) ==
    IF value.type = "None" THEN value
    ELSE IF value.type # "UUID" THEN uuid_UUID(value)
    ELSE value

\* --------------------------------------------------------- class Timestamp
\* A datetime is its wall-clock reading (in hours) and its tzinfo: aware
\* with a UTC offset, or naive.
Datetime(aware, offset, wall) ==
    [type |-> "datetime", aware |-> aware, offset |-> offset, wall |-> wall]

\* pendulum.instance(value): a naive datetime is taken to be in UTC
pendulum_instance(v) == IF v.aware THEN v ELSE Datetime(TRUE, 0, v.wall)

\* DateTime.in_timezone("UTC"): the same instant, read on the UTC clock
in_timezone_utc(v) == Datetime(TRUE, 0, v.wall - v.offset)

\* A bind processor that takes a naive timestamp to be in UTC.
Timestamp_process_bind_param_lenient(value, dialect) ==
    IF value.type = "None" THEN None
    ELSE IF dialect = "sqlite" THEN in_timezone_utc(pendulum_instance(value))
    ELSE value
\* lines 176-185
Timestamp_process_bind_param(value, dialect) ==
    IF value.type = "None" THEN None
    ELSE IF ~value.aware THEN ValueError("Timestamps must have a timezone.")
    ELSE IF dialect = "sqlite" THEN in_timezone_utc(pendulum_instance(value))
    ELSE value

\* lines 187-190
Timestamp_process_result_value(value, dialect) ==
    IF value.type = "None" THEN None
    ELSE in_timezone_utc(pendulum_instance(value))

\* What the database hands back for a bound value: sqlite keeps timestamps
\* naive (lines 167-168), everything else comes back as it went in.
Stored(kind, value, dialect) ==
    IF kind = "Timestamp" /\ dialect = "sqlite" /\ value.type = "datetime"
    THEN Datetime(FALSE, 0, value.wall)
    ELSE value

\* ------------------------------------------------------------ codec inputs
MaxSeed == 3
MaxWall == 2

SeedUuid(a, b) ==
    [type |-> "UUID", int |-> [i \in 1..32 |-> (a * i + 5 * b) % 16]]
UuidObjects == {SeedUuid(a, b) : a \in 0..MaxSeed, b \in 0..MaxSeed}
Upper(s) ==
    [type |-> "str",
     chars |-> [i \in 1..Len(s.chars) |->
                  IF s.chars[i] = "-" THEN "-"
                  ELSE UpperHexDigits[HexValue(s.chars[i]) + 1]]]
UuidStrings ==
    {uuid_str(SeedUuid(a, 1)) : a \in 0..MaxSeed}
    \cup {Upper(uuid_str(SeedUuid(a, 2))) : a \in 0..MaxSeed}
    \cup {[type |-> "str", chars |-> <<"n", "o">>]}
Offsets == {-5, 0, 2}
Datetimes ==
    {Datetime(TRUE, o, w) : o \in Offsets, w \in 0..MaxWall}
    \cup {Datetime(FALSE, 0, w) : w \in 0..MaxWall}

CodecOff == [stage |-> "off"]
CodecInputs ==
    {[kind |-> "UUID", dialect |-> d, value |-> v, stage |-> "value"] :
        d \in Dialects, v \in UuidObjects \cup UuidStrings \cup {None}}
    \cup
    {[kind |-> "Timestamp", dialect |-> d, value |-> v, stage |-> "value"] :
        d \in Dialects, v \in Datetimes \cup {None}}

\* A column value is bound on the way to the database.
UUID_bind ==
    /\ codec.stage = "value" /\ codec.kind = "UUID"
    /\ codec' = [kind |-> codec.kind, dialect |-> codec.dialect,
                 value |-> codec.value, stage |-> "bound",
                 bound |-> UUID_process_bind_param(codec.value, codec.dialect)]
    /\ UNCHANGED <<cacheVars, sessVars, connVars>>

\* The stored value is read back; a bind that raised stored nothing.
UUID_result ==
    /\ codec.stage = "bound" /\ codec.kind = "UUID"
    /\ ~IsError(codec.bound)
    /\ codec' = [kind |-> codec.kind, dialect |-> codec.dialect,
                 value |-> codec.value, stage |-> "result",
                 bound |-> codec.bound,
                 result |-> UUID_process_result_value(
                     Stored(codec.kind, codec.bound, codec.dialect),
                     codec.dialect)]
    /\ UNCHANGED <<cacheVars, sessVars, connVars>>

Timestamp_bind ==
    /\ codec.stage = "value" /\ codec.kind = "Timestamp"
    /\ codec' = [kind |-> codec.kind, dialect |-> codec.dialect,
                 value |-> codec.value, stage |-> "bound",
                 bound |-> Timestamp_process_bind_param(codec.value,
                                                        codec.dialect)]
    /\ UNCHANGED <<cacheVars, sessVars, connVars>>

Timestamp_result ==
    /\ codec.stage = "bound" /\ codec.kind = "Timestamp"
    /\ ~IsError(codec.bound)
    /\ codec' = [kind |-> codec.kind, dialect |-> codec.dialect,
                 value |-> codec.value, stage |-> "result",
                 bound |-> codec.bound,
                 result |-> Timestamp_process_result_value(
                     Stored(codec.kind, codec.bound, codec.dialect),
                     codec.dialect)]
    /\ UNCHANGED <<cacheVars, sessVars, connVars>>

\* --------------------------------------------------------- specifications
\* lines 29-30, and the listener as registered at import (line 96)
InitCache ==
    /\ ENGINES = <<>>
    /\ SESSION_FACTORIES = <<>>
    /\ engines = <<>>
    /\ factories = <<>>
    /\ registry = <<>>
    /\ numSessions = 0
    /\ frame = [l \in Loops |-> Idle]
    /\ listenerArmed = TRUE
    /\ connected = {}
    /\ pragmaRun = {}
    /\ schemaCreated = {}
    /\ engRet = {}
    /\ facRet = {}
    /\ sessRet = {}
    /\ raised = {}

Init == InitCache /\ codec = CodecOff

\* The steps of a get_engine call in progress on some loop, when
\* create_async_engine succeeds.
EngineSteps ==
    \/ \E l \in Loops : ge_check(l)
    \/ \E l \in Loops : ge_create(l)
    \/ \E l \in Loops : ge_return(l)

\* The steps of a get_session_factory call in progress on some loop.
FactorySteps ==
    \/ \E l \in Loops : sf_check(l)
    \/ \E l \in Loops : sf_create(l)
    \/ \E l \in Loops : sf_return(l)

\* The engine cache under every combination of arguments given and left
\* out, with get_session_factory() calling into it (line 75).
UrlArgs == {NoneArg, MemoryUrl}
EchoArgs == {NoneArg, "False", "True"}

Next ==
    \/ \E t \in Tasks, url \in UrlArgs, echo \in EchoArgs :
          ge_call(t, url, echo)
    \/ EngineSteps
    \/ \E t \in Tasks : sf_call_default(t)
    \/ FactorySteps

Spec == Init /\ [][Next]_vars

\* The engine cache when create_async_engine may fail.
FailureNext ==
    \/ \E t \in Tasks, url \in UrlArgs, echo \in EchoArgs :
          ge_call(t, url, echo)
    \/ EngineSteps
    \/ \E l \in Loops : ge_create_fail(l)

FailureSpec == Init /\ [][FailureNext]_vars

\* The factories at work on the default database: tasks obtain engines and
\* factories, with and without a bind, and call the factories for sessions.
SessionNext ==
    \/ \E t \in Tasks : ge_call(t, NoneArg, NoneArg)
    \/ EngineSteps
    \/ \E t \in Tasks : sf_call_default(t)
    \/ \E t \in Tasks, e \in 1..Len(engines) : sf_call(t, e)
    \/ FactorySteps
    \/ \E t \in Tasks, f \in 1..Len(factories) : Invoke(t, f)

SessionSpec == Init /\ [][SessionNext]_vars

\* Connections: one task of each loop obtains engines for every kind of
\* database and connects through them.
ConnectTasks == {"a1", "b1"}

ConnectNext ==
    \/ \E t \in ConnectTasks, url \in Urls : ge_call(t, url, NoneArg)
    \/ EngineSteps
    \/ \E t \in ConnectTasks, e \in 1..Len(engines) : Connect(t, e)

ConnectSpec == Init /\ [][ConnectNext]_vars

CodecInit == InitCache /\ codec \in CodecInputs

CodecNext == UUID_bind \/ UUID_result \/ Timestamp_bind \/ Timestamp_result

CodecSpec == CodecInit /\ [][CodecNext]_vars

\* ------------------------------------------------------------------ claims
SameArgs(r1, r2) == r1[2][2] = r2[2][2] /\ r1[2][3] = r2[2][3]
DefaultKey(l) == <<l, settings_connection_url, settings_echo>>

\* C1, as stated: no engine is handed by get_engine to two different tasks.
C1_NoEngineHeldByTwoTasks ==
    \A r1, r2 \in engRet : r1[3] = r2[3] => r1[1] = r2[1]

\* C1, amended: tasks running on different event loops are never handed the
\* same engine, whatever arguments they pass and in whatever order they call.
C1_NoEngineHeldAcrossLoops ==
    \A r1, r2 \in engRet : LoopOf(r1[1]) # LoopOf(r2[1]) => r1[3] # r2[3]

\* Tasks of two loops have called with the same connection string and echo
\* flag and hold two engines.
C1_Witness ==
    \E r1, r2 \in engRet :
        /\ LoopOf(r1[1]) # LoopOf(r2[1])
        /\ SameArgs(r1, r2)
        /\ r1[3] # r2[3]

\* C2: an engine get_engine has returned for a key stays the cache's entry
\* for that key, so every return for the key, earlier or later, is that one
\* engine.
C2_ReturnedEngineIsPermanent ==
    /\ \A r \in engRet : r[2] \in DOMAIN ENGINES /\ ENGINES[r[2]] = r[3]
    /\ \A r1, r2 \in engRet : r1[2] = r2[2] => r1[3] = r2[3]

\* Two calls with one key were answered while the cache holds another key
\* and a session factory as well.
C2_Witness ==
    /\ \E r1, r2 \in engRet : r1[1] # r2[1] /\ r1[2] = r2[2] /\ r1[3] = r2[3]
    /\ Cardinality(DOMAIN ENGINES) >= 2
    /\ DOMAIN SESSION_FACTORIES # {}

\* C4: for every key of either cache at most one object is ever made, and
\* every caller of that key is returned that object.
C4_OneObjectPerKey ==
    /\ \A e1, e2 \in 1..Len(engines) :
          engines[e1].key = engines[e2].key => e1 = e2
    /\ \A f1, f2 \in 1..Len(factories) :
          factories[f1].key = factories[f2].key => f1 = f2
    /\ \A r \in engRet : CreatedFor(r[2]) = {r[3]}
    /\ \A r \in facRet : FactoriesFor(<<LoopOf(r[1]), r[2]>>) = {r[4]}

\* Two tasks have asked for the same engine key and for the same factory key
\* and both calls of each pair were answered, while engines exist on two
\* loops.
C4_Witness ==
    /\ \E r1, r2 \in engRet : r1[1] # r2[1] /\ r1[2] = r2[2]
    /\ \E r1, r2 \in facRet : r1[1] # r2[1] /\ r1[2] = r2[2]
    /\ \E e1, e2 \in 1..Len(engines) : engines[e1].key[1] # engines[e2].key[1]

\* C5: a failed creation stores nothing under the key, every entry of the
\* cache and every engine returned is an engine that was made for its key,
\* so a call after the failure creates afresh.
C5_FailureIsNotCached ==
    /\ \A k \in raised : CreatedFor(k) = {} => k \notin DOMAIN ENGINES
    /\ \A k \in DOMAIN ENGINES : ENGINES[k] \in CreatedFor(k)
    /\ \A r \in engRet : r[3] \in CreatedFor(r[2])

\* A key whose creation failed was asked for again, and the engine made
\* then is cached and returned.
C5_Witness ==
    \E k \in raised :
        /\ k \in DOMAIN ENGINES
        /\ \E r \in engRet : r[2] = k /\ r[3] = ENGINES[k]

\* C8: the factory returned is the one made for (loop, bind); a task gets
\* the same factory for the same engine each time; without a bind the engine
\* is the cached engine of the default key, the only one ever made for it,
\* so get_session_factory() and get_session_factory(get_engine()) agree.
C8_FactoryMemoizedPerKey ==
    /\ \A r \in facRet : factories[r[4]].bind = r[2]
    /\ \A r1, r2 \in facRet :
          (r1[1] = r2[1] /\ r1[2] = r2[2]) => r1[4] = r2[4]
    /\ \A r \in facRet :
          r[3] => /\ DefaultKey(LoopOf(r[1])) \in DOMAIN ENGINES
                  /\ ENGINES[DefaultKey(LoopOf(r[1]))] = r[2]
                  /\ CreatedFor(DefaultKey(LoopOf(r[1]))) = {r[2]}
    /\ \A r1, r2 \in facRet : \A g \in engRet :
          (/\ r1[1] = r2[1] /\ g[1] = r1[1]
           /\ r1[3] /\ ~r2[3]
           /\ g[2] = DefaultKey(LoopOf(g[1])) /\ r2[2] = g[3])
          => r1[4] = r2[4]

\* One task has called get_session_factory(), get_engine() and
\* get_session_factory(<that engine>), and the two factories are one.
C8_Witness ==
    \E r1, r2 \in facRet : \E g \in engRet :
        /\ r1[1] = r2[1] /\ g[1] = r1[1]
        /\ r1[3] /\ ~r2[3]
        /\ g[2] = DefaultKey(LoopOf(g[1])) /\ r2[2] = g[3]
        /\ r1[4] = r2[4]

\* C3: a factory called again by the same task returns the same session,
\* and two different tasks are never returned the same session.
C3_SessionPerTask ==
    \A r1, r2 \in sessRet :
        /\ (r1[1] = r2[1] /\ r1[2] = r2[2]) => r1[3] = r2[3]
        /\ r1[1] # r2[1] => r1[3] # r2[3]

\* Two tasks of one loop called the same factory, bound to the same engine,
\* and hold two sessions.
C3_Witness ==
    \E r1, r2 \in sessRet :
        /\ r1[1] # r2[1] /\ LoopOf(r1[1]) = LoopOf(r2[1])
        /\ r1[2] = r2[2]
        /\ r1[3] # r2[3]

IsSqlite(e) == get_backend_name(engines[e].url) = "sqlite"
IsInMemory(e) ==
    IsSqlite(e) /\ url_database(engines[e].url) \in {":memory:", NoneArg}

\* C6, as stated: every in-memory sqlite engine a connection was made
\* through has had the schema created and the foreign-key pragma run.
C6_EveryMemoryEngineIsSetUp ==
    \A e \in connected :
        IsInMemory(e) => e \in schemaCreated /\ e \in pragmaRun

\* C7, as stated: a connection to a server database or to a sqlite file
\* runs neither the schema creation nor the foreign-key pragma.
C7_DurableStoreUntouched ==
    \A e \in connected :
        ~IsInMemory(e) => e \notin schemaCreated /\ e \notin pragmaRun

\* C7, amended: the schema is never created in a durable store and a server
\* database gets neither effect; the pragma does run on a sqlite file when
\* it is the first database of the process to be connected to.
C7_NoSchemaInDurableStore ==
    /\ \A e \in 1..Len(engines) :
          /\ ~IsInMemory(e) => e \notin schemaCreated
          /\ ~IsSqlite(e) => e \notin pragmaRun
    /\ \A e \in connected :
          (connected = {e} /\ IsSqlite(e)) => e \in pragmaRun

\* The first connection of the process went to a sqlite file: the pragma
\* ran and no table was created.
C7_Witness ==
    \E e \in connected :
        /\ engines[e].url = FileUrl
        /\ e \in pragmaRun
        /\ e \notin schemaCreated

\* The place of the j-th hexadecimal digit in the 8-4-4-4-12 layout.
DigitPlace(j) ==
    IF j <= 8 THEN j ELSE IF j <= 12 THEN j + 1 ELSE IF j <= 16 THEN j + 2
    ELSE IF j <= 20 THEN j + 3 ELSE j + 4

IsCanonicalTextOf(s, u) ==
    /\ s.type = "str"
    /\ Len(s.chars) = 36
    /\ \A i \in {9, 14, 19, 24} : s.chars[i] = "-"
    /\ \A j \in 1..32 : s.chars[DigitPlace(j)] = HexDigits[u.int[j] + 1]

\* C9: a UUID bound and read back is the same UUID on both dialects, and on
\* sqlite what is bound is its 36-character lowercase hyphenated text.
C9_UuidRoundTrip ==
    (codec.stage # "off" /\ codec.kind = "UUID" /\ codec.value.type = "UUID")
    => /\ (codec.stage # "value" /\ codec.dialect = "sqlite")
              => IsCanonicalTextOf(codec.bound, codec.value)
       /\ codec.stage = "result" => codec.result = codec.value

\* A UUID with letter digits went to sqlite and came back.
C9_Witness ==
    /\ codec.stage = "result" /\ codec.kind = "UUID"
    /\ codec.dialect = "sqlite"
    /\ codec.value.type = "UUID"
    /\ \E i \in 1..32 : codec.value.int[i] > 9
    /\ codec.result = codec.value

\* C10: binding a naive datetime raises the missing-timezone error on both
\* dialects and nothing is stored; binding an aware one does not raise.
C10_NaiveTimestampRejected ==
    (/\ codec.stage \in {"bound", "result"}
     /\ codec.kind = "Timestamp"
     /\ codec.value.type = "datetime")
    => /\ ~codec.value.aware =>
              /\ codec.bound = ValueError("Timestamps must have a timezone.")
              /\ codec.stage # "result"
       /\ codec.value.aware => ~IsError(codec.bound)

\* A naive datetime was bound for sqlite and the bind raised.
C10_Witness ==
    /\ codec.stage = "bound" /\ codec.kind = "Timestamp"
    /\ codec.dialect = "sqlite"
    /\ codec.value.type = "datetime" /\ ~codec.value.aware
    /\ IsError(codec.bound)

====
